---- MODULE Spec2Model ----
(***************************************************************************)
(* State-machine model of the Teto/Miku dual-mention hooks                 *)
(*   cogs/chat_hooks/teto_miku_interaction.py   (static scripts)           *)
(*   cogs/chat_hooks/miku_fear_line_generator.py (generated scripts)       *)
(* Every asyncio suspension point of a background sequence task is one     *)
(* step of the model; handle_message has no suspension point and is one    *)
(* atomic action; aclose suspends once, at asyncio.gather.                 *)
(***************************************************************************)
EXTENDS Integers, Sequences, FiniteSets, Bags, TLC

VARIABLES
    variant,                \* which hook class is instantiated
    me,                     \* bot.user (its id, or "None")
    settings,               \* the Settings fields the hooks read
    build_miku_tease_lines, \* the generator callback ("callback") or "None"
    now,                    \* time.monotonic()
    pending_by_channel,     \* channel -> PendingDualMention or NoPending
    active_channels,        \* set of channel ids
    sequence_tasks,         \* the asyncio.Tasks the hook created (a bag)
    aclose_pc,              \* position of the aclose() call
    ret,                    \* value returned by the last handle_message call
    call,                   \* a call of a helper or of the store: arguments
                            \* and result
    logger,                 \* the ChatReplayLogger, its file and its calls
    store                   \* the ShortTermMemoryStore and its table

\* what construction fixes
config == <<variant, me, settings, build_miku_tease_lines>>

\* the two services, which the hooks do not touch
services == <<logger, store>>

vars == <<config, now, pending_by_channel, active_channels, sequence_tasks,
          aclose_pc, ret, call, services>>

----------------------------------------------------------------------------
(* Bounds of the model *)

MaxTime == 6     \* the clock is explored up to this reading
MaxTasks == 2    \* tasks alive at once
MaxMentions == 3 \* length of a mention list given to the trigger detector
MaxBase == 2     \* length of a base list given to _expand_lines
MaxTarget == 5   \* target count given to _expand_lines
MaxCount == 10   \* configured line count, explored from -MaxCount
MaxRawLines == 2 \* lines of a text given to _parse_lines
MaxLineCount == 3 \* line_count given to _parse_lines

----------------------------------------------------------------------------
(* Identities, channels, messages *)

TetoId == "teto"
MikuId == "miku"
OtherBotId == "otherbot"
UserId == "user"
NoUser == "None"

Channels == {"c1", "c2"}
MsgIds == {1, 2}

\* message.author : id and the bot flag
Authors ==
    { [id |-> UserId, bot |-> FALSE],
      [id |-> MikuId, bot |-> TRUE],
      [id |-> OtherBotId, bot |-> TRUE] }

\* message.mentions: the list of mentioned members, by id
MentionLists == { << TetoId >>, << TetoId, MikuId >> }

Messages ==
    [id : MsgIds, channel : Channels, author : Authors,
     mentions : MentionLists]

\* a service that was not constructed
NoLogger == [log_path |-> "None"]

NoStore == [db_path |-> "None"]

NoCall == [fn |-> "none"]

NoPending == [created_at |-> -1, trigger_message_id |-> 0]

PendingDualMention(created, trigger) ==
    [created_at |-> created, trigger_message_id |-> trigger]

----------------------------------------------------------------------------
(* Pure helpers *)

Max(a, b) == IF a >= b THEN a ELSE b

TETO_FEAR_LINES ==
    << "T1 <@{miku_id}>", "T2", "T3", "T4", "T5", "T6", "T7" >>

MIKU_TEASE_LINES ==
    << "M1 <@{teto_id}>", "M2", "M3", "M4", "M5", "M6", "M7" >>

\* str.format on a template: only the first template of each list carries
\* the placeholder
Format(template, id) ==
    IF template = "T1 <@{miku_id}>" THEN "T1 <@" \o id \o ">"
    ELSE IF template = "M1 <@{teto_id}>" THEN "M1 <@" \o id \o ">"
    ELSE template

RECURSIVE Extend(_, _, _)
Extend(extended, base_lines, target_count) ==
    IF Len(extended) < target_count
    THEN Extend(extended \o base_lines, base_lines, target_count)
    ELSE extended

ExpandLines(base_lines, target_count) ==
    IF target_count <= Len(base_lines)
    THEN SubSeq(base_lines, 1, target_count)
    ELSE SubSeq(Extend(base_lines, base_lines, target_count), 1, target_count)

\* variant: the configured count is used as it is, without the floor of 1
BuildTetoFearLinesNoFloor ==
    LET target_count == settings.teto_fear_message_count
        base_lines == [i \in 1..Len(TETO_FEAR_LINES) |->
                          Format(TETO_FEAR_LINES[i], MikuId)]
    IN  ExpandLines(base_lines, target_count)

BuildTetoFearLines ==
    LET target_count == Max(1, settings.teto_fear_message_count)
        base_lines == [i \in 1..Len(TETO_FEAR_LINES) |->
                          Format(TETO_FEAR_LINES[i], MikuId)]
    IN  ExpandLines(base_lines, target_count)

BuildMikuTeaseLinesStatic ==
    LET target_count == Max(1, settings.teto_fear_message_count)
        base_lines == [i \in 1..Len(MIKU_TEASE_LINES) |->
                          Format(MIKU_TEASE_LINES[i], TetoId)]
    IN  ExpandLines(base_lines, target_count)

\* variant: one mention is enough
IsDualMentionTriggerEither(message) ==
    LET mention_ids == {message.mentions[i] : i \in DOMAIN message.mentions}
    IN  TetoId \in mention_ids \/ MikuId \in mention_ids

IsDualMentionTrigger(message) ==
    LET mention_ids == {message.mentions[i] : i \in DOMAIN message.mentions}
    IN  TetoId \in mention_ids /\ MikuId \in mention_ids

\* variant: the sweep removes nothing
ExpirePendingNever(pending, clock) == pending

\* variant: the comparison is >=, an entry is dropped at the timeout itself
ExpirePendingAtTimeout(pending, clock) ==
    [c \in Channels |->
        IF pending[c] # NoPending
           /\ clock - pending[c].created_at
                >= settings.teto_wait_miku_timeout_seconds
        THEN NoPending
        ELSE pending[c]]

\* _expire_pending: drop every entry with now - created_at > timeout
ExpirePending(pending, clock) ==
    [c \in Channels |->
        IF pending[c] # NoPending
           /\ clock - pending[c].created_at
                > settings.teto_wait_miku_timeout_seconds
        THEN NoPending
        ELSE pending[c]]

----------------------------------------------------------------------------
(* Background sequence tasks.                                              *)
(* A task is known to the program only through self._tasks, through the    *)
(* list aclose gathers and through the event loop, so the tasks are kept   *)
(* as a bag of records: "registered" is membership in self._tasks and      *)
(* "gathered" is membership in aclose's local list.  A finished task whose *)
(* done callback has run and that no list holds is garbage and leaves the  *)
(* bag.                                                                    *)

Terminal == {"done", "cancelled"}

\* the pacing delays of _run_sequence, in tenths of a second
FirstDelay == 8
LaterDelay == 12

\* delay_seconds = 0.8 if index == 0 else 1.2
DelaySeconds(index) == IF index = 0 THEN FirstDelay ELSE LaterDelay

\* asyncio.create_task(...) followed by self._tasks.add(task): the
\* coroutine has not run yet
NewTask(channel_id, trigger_message_id, lines) ==
    [channel_id |-> channel_id,
     trigger_message_id |-> trigger_message_id,
     lines |-> lines,
     pc |-> "created",
     index |-> 0,
     delay_seconds |-> 0,   \* set while the runner sleeps, else 0
     delivered |-> << >>,
     must_cancel |-> FALSE,
     registered |-> TRUE,
     gathered |-> FALSE]

Unfinished(task) == task.pc \notin Terminal

\* between self.active_channels.add and the finally clause of _run_sequence
InRunSequence(task) == task.pc \in {"typing", "send"}

Tasks == BagToSet(sequence_tasks)

RECURSIVE SumOver(_, _)
SumOver(S, bag) ==
    IF S = {} THEN 0
    ELSE LET x == CHOOSE y \in S : TRUE
         IN  bag[x] + SumOver(S \ {x}, bag)

\* how many tasks there are of the kinds in S
CountTasks(S) == SumOver(S, sequence_tasks)

\* the bag with one copy of task replaced by its next state
Replace(task, next) ==
    (sequence_tasks (-) SetToBag({task})) (+) SetToBag({next})

\* self._tasks
Registered == {task \in Tasks : task.registered}

----------------------------------------------------------------------------
(* handle_message and its helpers.  Each helper yields the outcome of the  *)
(* call: the boolean returned, the pending table and the tasks created.    *)

Outcome(result, pending, created) ==
    [result |-> result, pending |-> pending, created |-> created]

\* variant: the entry is read but left in the table
HandleTetoBotMessageKeepsEntry(message, pending) ==
    IF message.author.id # MikuId
    THEN Outcome(FALSE, pending, << >>)
    ELSE LET entry == pending[message.channel]
         IN  IF entry = NoPending
             THEN Outcome(FALSE, pending, << >>)
             ELSE Outcome(FALSE, pending,
                          << NewTask(message.channel,
                                     entry.trigger_message_id,
                                     BuildTetoFearLines) >>)

\* static hook, _handle_teto_bot_message
HandleTetoBotMessage(message, pending) ==
    IF message.author.id # MikuId
    THEN Outcome(FALSE, pending, << >>)
    ELSE LET entry == pending[message.channel]
             popped == [pending EXCEPT ![message.channel] = NoPending]
         IN  IF entry = NoPending
             THEN Outcome(FALSE, popped, << >>)
             ELSE Outcome(FALSE, popped,
                          << NewTask(message.channel,
                                     entry.trigger_message_id,
                                     BuildTetoFearLines) >>)

\* variant: an existing entry is kept (first trigger wins)
HandleAsTetoFirstWins(message, pending) ==
    IF message.author.bot
    THEN HandleTetoBotMessage(message, pending)
    ELSE IF IsDualMentionTrigger(message)
         THEN Outcome(TRUE,
                      IF pending[message.channel] # NoPending THEN pending
                      ELSE [pending EXCEPT ![message.channel] =
                               PendingDualMention(now, message.id)],
                      << >>)
         ELSE Outcome(FALSE, pending, << >>)

\* static hook, _handle_as_teto
HandleAsTeto(message, pending) ==
    IF message.author.bot
    THEN HandleTetoBotMessage(message, pending)
    ELSE IF IsDualMentionTrigger(message)
         THEN Outcome(TRUE,
                      [pending EXCEPT ![message.channel] =
                           PendingDualMention(now, message.id)],
                      << >>)
         ELSE Outcome(FALSE, pending, << >>)

\* variant: the author's bot flag is not looked at
HandleAsMikuStaticAnyAuthor(message, pending) ==
    IF ~IsDualMentionTrigger(message)
    THEN Outcome(FALSE, pending, << >>)
    ELSE Outcome(TRUE, pending,
                 << NewTask(message.channel, message.id,
                            BuildMikuTeaseLinesStatic) >>)

\* static hook, _handle_as_miku
HandleAsMikuStatic(message, pending) ==
    IF message.author.bot
    THEN Outcome(FALSE, pending, << >>)
    ELSE IF ~IsDualMentionTrigger(message)
         THEN Outcome(FALSE, pending, << >>)
         ELSE Outcome(TRUE, pending,
                      << NewTask(message.channel, message.id,
                                 BuildMikuTeaseLinesStatic) >>)

\* generated hook, _handle_as_miku: the task runs _run_miku_sequence, which
\* obtains its lines only after the generator call
HandleAsMikuGenerated(message, pending) ==
    IF message.author.bot
    THEN Outcome(FALSE, pending, << >>)
    ELSE IF ~IsDualMentionTrigger(message)
         THEN Outcome(FALSE, pending, << >>)
         ELSE Outcome(TRUE, pending,
                      << NewTask(message.channel, message.id, << >>) >>)

\* variant: the test of active_channels is missing
HandleMessageStaticNoBusyGuard(message) ==
    IF ~settings.dual_mention_hook_enabled
    THEN Outcome(FALSE, pending_by_channel, << >>)
    ELSE IF me = NoUser
    THEN Outcome(FALSE, pending_by_channel, << >>)
    ELSE LET swept == ExpirePending(pending_by_channel, now)
         IN  IF me = TetoId THEN HandleAsTeto(message, swept)
             ELSE IF me = MikuId THEN HandleAsMikuStatic(message, swept)
             ELSE Outcome(FALSE, swept, << >>)

\* static hook, handle_message
HandleMessageStatic(message) ==
    IF ~settings.dual_mention_hook_enabled
    THEN Outcome(FALSE, pending_by_channel, << >>)
    ELSE IF me = NoUser
    THEN Outcome(FALSE, pending_by_channel, << >>)
    ELSE LET swept == ExpirePending(pending_by_channel, now)
         IN  IF message.channel \in active_channels
             THEN Outcome(FALSE, swept, << >>)
             ELSE IF me = TetoId THEN HandleAsTeto(message, swept)
             ELSE IF me = MikuId THEN HandleAsMikuStatic(message, swept)
             ELSE Outcome(FALSE, swept, << >>)

\* generated hook, handle_message
HandleMessageGenerated(message) ==
    IF ~settings.dual_mention_hook_enabled
    THEN Outcome(FALSE, pending_by_channel, << >>)
    ELSE IF me = NoUser
    THEN Outcome(FALSE, pending_by_channel, << >>)
    ELSE IF me # MikuId
    THEN Outcome(FALSE, pending_by_channel, << >>)
    ELSE IF message.channel \in active_channels
    THEN Outcome(FALSE, pending_by_channel, << >>)
    ELSE HandleAsMikuGenerated(message, pending_by_channel)

HandleMessageOutcome(message) ==
    IF variant = "static"
    THEN HandleMessageStatic(message)
    ELSE HandleMessageGenerated(message)

\* One call of handle_message, from entry to return.
HandleMessage(message) ==
    LET out == HandleMessageOutcome(message)
    IN  /\ BagCardinality(sequence_tasks) + Len(out.created) <= MaxTasks
        /\ pending_by_channel' = out.pending
        /\ sequence_tasks' =
              IF out.created = << >> THEN sequence_tasks
              ELSE sequence_tasks (+) SetToBag({out.created[1]})
        /\ ret' = out.result
        /\ UNCHANGED <<config, services, now, active_channels, aclose_pc, call>>

\* The monotonic clock advances.  The code only ever looks at differences
\* now - created_at, so time is counted while some entry is pending.
Tick ==
    /\ now < MaxTime
    /\ \E c \in Channels : pending_by_channel[c] # NoPending
    /\ now' = now + 1
    /\ UNCHANGED <<config, services, pending_by_channel, active_channels,
                   sequence_tasks, aclose_pc, ret, call>>

----------------------------------------------------------------------------
(* Steps of a background sequence task.  A task on which cancel() was      *)
(* called takes CancelledError at its next step (TaskCancelled) and takes  *)
(* no other step.                                                          *)

\* what the generator callback can do: raise, or return a list of lines
GeneratorReturns ==
    { << >>, << " " >>, << " G1 <@teto> ", " ", "G2" >> }

GeneratorOutcomes ==
    { [raised |-> TRUE, lines |-> << >>] }
      \cup { [raised |-> FALSE, lines |-> l] : l \in GeneratorReturns }

\* str.strip on the lines the generator can return
Strip(line) ==
    IF line = " " THEN ""
    ELSE IF line = " G1 <@teto> " THEN "G1 <@teto>"
    ELSE line

\* [line.strip() for line in dynamic_lines if line.strip()]
RECURSIVE Normalized(_)
Normalized(dynamic_lines) ==
    IF dynamic_lines = << >> THEN << >>
    ELSE IF Strip(Head(dynamic_lines)) # ""
         THEN << Strip(Head(dynamic_lines)) >> \o Normalized(Tail(dynamic_lines))
         ELSE Normalized(Tail(dynamic_lines))

\* variant: the returned lines are used as they come, blank ones included
BuildMikuTeaseLinesGeneratedUnfiltered(outcome) ==
    LET target_count == Max(1, settings.teto_fear_message_count)
    IN  IF outcome.raised THEN << >>
        ELSE IF outcome.lines = << >> THEN << >>
        ELSE ExpandLines(outcome.lines, target_count)

\* generated hook, _build_miku_tease_lines once the callback has answered
BuildMikuTeaseLinesGenerated(outcome) ==
    LET target_count == Max(1, settings.teto_fear_message_count)
    IN  IF outcome.raised THEN << >>
        ELSE IF Normalized(outcome.lines) = << >> THEN << >>
        ELSE ExpandLines(Normalized(outcome.lines), target_count)

TaskFrame ==
    UNCHANGED <<config, services, now, pending_by_channel, aclose_pc, ret, call>>

\* _run_sequence from its first statement to its first suspension point:
\* the channel is added, and an empty script falls straight to finally
EnterRunSequence(task, lines) ==
    IF lines = << >>
    THEN /\ sequence_tasks' =
              Replace(task, [task EXCEPT !.lines = lines, !.pc = "done"])
         /\ active_channels' =
              (active_channels \cup {task.channel_id}) \ {task.channel_id}
    ELSE /\ sequence_tasks' =
              Replace(task, [task EXCEPT !.lines = lines, !.pc = "typing",
                                         !.index = 0,
                                         !.delay_seconds = DelaySeconds(0)])
         /\ active_channels' = active_channels \cup {task.channel_id}

\* variant: the discard is missing
CleanupSkipped(task) ==
    UNCHANGED active_channels

\* the finally clause of _run_sequence
Cleanup(task) ==
    active_channels' = active_channels \ {task.channel_id}

\* the event loop runs the task for the first time
TaskStart(task) ==
    /\ task.pc = "created"
    /\ ~task.must_cancel
    /\ IF variant = "static"
       THEN EnterRunSequence(task, task.lines)
       ELSE IF build_miku_tease_lines = "None"
            THEN \* _build_miku_tease_lines returns [] and the task returns
                 /\ sequence_tasks' = Replace(task, [task EXCEPT !.pc = "done"])
                 /\ UNCHANGED active_channels
            ELSE /\ sequence_tasks' =
                      Replace(task, [task EXCEPT !.pc = "generate"])
                 /\ UNCHANGED active_channels
    /\ TaskFrame

\* generated hook: the awaited callback returns or raises
GenerateDone(task, outcome) ==
    /\ task.pc = "generate"
    /\ ~task.must_cancel
    /\ LET lines == BuildMikuTeaseLinesGenerated(outcome)
       IN  IF lines = << >>
           THEN /\ sequence_tasks' =
                     Replace(task, [task EXCEPT !.pc = "done"])
                /\ UNCHANGED active_channels
           ELSE EnterRunSequence(task, lines)
    /\ TaskFrame

\* "async with channel.typing(): await asyncio.sleep(delay)" completes
TypingDone(task) ==
    /\ task.pc = "typing"
    /\ ~task.must_cancel
    /\ sequence_tasks' = Replace(task, [task EXCEPT !.pc = "send"])
    /\ UNCHANGED active_channels
    /\ TaskFrame

\* variant: the script is walked from its end
AfterSendReversed(task) ==
    LET line == task.lines[Len(task.lines) - task.index]
        last == task.index + 1 = Len(task.lines)
    IN  [task EXCEPT !.delivered = Append(task.delivered, line),
                     !.index = IF last THEN task.index ELSE task.index + 1,
                     !.delay_seconds = IF last THEN 0
                                       ELSE DelaySeconds(task.index + 1),
                     !.pc = IF last THEN "done" ELSE "typing"]

\* the task after channel.send(line) has completed
AfterSend(task) ==
    LET line == task.lines[task.index + 1]
        last == task.index + 1 = Len(task.lines)
    IN  [task EXCEPT !.delivered = Append(task.delivered, line),
                     !.index = IF last THEN task.index ELSE task.index + 1,
                     !.delay_seconds = IF last THEN 0
                                       ELSE DelaySeconds(task.index + 1),
                     !.pc = IF last THEN "done" ELSE "typing"]

\* channel.send(line) completes: the line is delivered, the loop goes on
SendDone(task) ==
    /\ task.pc = "send"
    /\ ~task.must_cancel
    /\ sequence_tasks' = Replace(task, AfterSend(task))
    /\ IF AfterSend(task).pc = "done"
       THEN Cleanup(task)
       ELSE UNCHANGED active_channels
    /\ TaskFrame

\* variant: the error is caught inside the loop body and the loop goes on
DeliveryErrorContinues(task) ==
    /\ task.pc \in {"typing", "send"}
    /\ ~task.must_cancel
    /\ sequence_tasks' = Replace(task, [task EXCEPT !.pc = "typing"])
    /\ UNCHANGED active_channels
    /\ TaskFrame

\* typing() or send() raises: except Exception, then finally
DeliveryError(task) ==
    /\ task.pc \in {"typing", "send"}
    /\ ~task.must_cancel
    /\ sequence_tasks' =
          Replace(task, [task EXCEPT !.pc = "done", !.delay_seconds = 0])
    /\ Cleanup(task)
    /\ TaskFrame

\* variant: the cleanup is not in a finally clause, so cancellation skips it
TaskCancelledNoFinally(task) ==
    /\ Unfinished(task)
    /\ task.must_cancel
    /\ sequence_tasks' =
          Replace(task, [task EXCEPT !.pc = "cancelled", !.delay_seconds = 0])
    /\ UNCHANGED active_channels
    /\ TaskFrame

\* CancelledError is thrown into the task.  A task that never ran does not
\* run its body; inside _run_sequence the finally clause runs.
TaskCancelled(task) ==
    /\ Unfinished(task)
    /\ task.must_cancel
    /\ sequence_tasks' =
          Replace(task, [task EXCEPT !.pc = "cancelled", !.delay_seconds = 0])
    /\ IF InRunSequence(task) THEN Cleanup(task) ELSE UNCHANGED active_channels
    /\ TaskFrame

\* task.add_done_callback(self._tasks.discard), run by the loop after the
\* task has finished.  A task aclose still gathers stays referenced.
DoneCallback(task) ==
    /\ ~Unfinished(task)
    /\ task.registered \/ ~task.gathered
    /\ sequence_tasks' =
          IF task.gathered
          THEN Replace(task, [task EXCEPT !.registered = FALSE])
          ELSE sequence_tasks (-) SetToBag({task})
    /\ UNCHANGED active_channels
    /\ TaskFrame

----------------------------------------------------------------------------
(* aclose *)

\* tasks = list(self._tasks); task.cancel() on each: a finished task is
\* unaffected by cancel()
Cancel(task) ==
    IF task.registered
    THEN [task EXCEPT !.gathered = TRUE, !.must_cancel = Unfinished(task)]
    ELSE task

\* self._tasks.clear(), and aclose's list goes out of scope
Clear(task) == [task EXCEPT !.registered = FALSE, !.gathered = FALSE]

\* "for task in tasks: task.cancel()" over the whole registry
CancelAll ==
    [y \in {Cancel(x) : x \in Tasks} |->
        SumOver({x \in Tasks : Cancel(x) = y}, sequence_tasks)]

\* the registry emptied, every task otherwise as it was
ClearAll ==
    [y \in {Clear(x) : x \in Tasks} |->
        SumOver({x \in Tasks : Clear(x) = y}, sequence_tasks)]

\* aclose up to its suspension at asyncio.gather (or its early return)
AcloseBegin ==
    /\ aclose_pc = "idle"
    /\ IF CountTasks(Registered) = 0
       THEN /\ aclose_pc' = "returned"
            /\ UNCHANGED sequence_tasks
       ELSE /\ aclose_pc' = "gather"
            /\ sequence_tasks' = CancelAll
    /\ UNCHANGED <<config, services, now, pending_by_channel, active_channels, ret,
                   call>>

\* gather completes once every gathered task is done (their done callbacks
\* were registered before gather's and have run); then self._tasks.clear()
AcloseEnd ==
    /\ aclose_pc = "gather"
    /\ \A task \in Tasks :
          task.gathered => ~Unfinished(task) /\ ~task.registered
    /\ aclose_pc' = "returned"
    /\ sequence_tasks' =
          LET cleared == ClearAll
          IN  [task \in {x \in DOMAIN cleared : Unfinished(x)} |->
                  cleared[task]]
    /\ UNCHANGED <<config, services, now, pending_by_channel, active_channels, ret,
                   call>>

----------------------------------------------------------------------------
(* Specifications *)

TimeoutSeconds == 5

Settings(enabled, count) ==
    [dual_mention_hook_enabled |-> enabled,
     teto_wait_miku_timeout_seconds |-> TimeoutSeconds,
     teto_fear_message_count |-> count]

Deployment(v, user, s, callback) ==
    [variant |-> v, me |-> user, settings |-> s,
     build_miku_tease_lines |-> callback]

\* the configurations explored: both hooks under each identity, the
\* feature switched off, a bot that is not logged in, a line count below 1
Deployments ==
    { Deployment("static", user, Settings(TRUE, 2), "None") :
          user \in {TetoId, MikuId, OtherBotId, NoUser} }
    \cup { Deployment("generated", user, Settings(TRUE, 2), "callback") :
          user \in {TetoId, MikuId, NoUser} }
    \cup { Deployment("generated", MikuId, Settings(TRUE, 2), "None"),
           Deployment("static", MikuId, Settings(TRUE, 0), "None"),
           Deployment("static", TetoId, Settings(FALSE, 2), "None"),
           Deployment("static", MikuId, Settings(FALSE, 2), "None"),
           Deployment("generated", MikuId, Settings(FALSE, 2), "callback") }

Init ==
    /\ \E d \in Deployments :
          /\ variant = d.variant
          /\ me = d.me
          /\ settings = d.settings
          /\ build_miku_tease_lines = d.build_miku_tease_lines
    /\ now = 0
    /\ pending_by_channel = [c \in Channels |-> NoPending]
    /\ active_channels = {}
    /\ sequence_tasks = EmptyBag
    /\ aclose_pc = "idle"
    /\ ret = FALSE
    /\ call = NoCall
    /\ logger = NoLogger
    /\ store = NoStore

\* messages of the untimed specification
UntimedMessages == {message \in Messages : message.id = 1}

\* Handlers, task steps and shutdown in every interleaving, at one clock
\* reading
Next ==
    \/ \E message \in UntimedMessages : HandleMessage(message)
    \/ \E task \in Tasks : TaskStart(task)
    \/ \E task \in Tasks : \E outcome \in GeneratorOutcomes :
          GenerateDone(task, outcome)
    \/ \E task \in Tasks : TypingDone(task)
    \/ \E task \in Tasks : SendDone(task)
    \/ \E task \in Tasks : DeliveryError(task)
    \/ \E task \in Tasks : TaskCancelled(task)
    \/ \E task \in Tasks : DoneCallback(task)
    \/ AcloseBegin
    \/ AcloseEnd

Spec == Init /\ [][Next]_vars

\* The static hook under each identity, its runner undisturbed: what
\* handle_message returns and does, with tasks starting and ending around it.
InitStatic == Init /\ variant = "static"

NextStatic ==
    \/ \E message \in UntimedMessages : HandleMessage(message)
    \/ \E task \in Tasks : TaskStart(task)
    \/ \E task \in Tasks : TypingDone(task)
    \/ \E task \in Tasks : SendDone(task)
    \/ \E task \in Tasks : DoneCallback(task)

SpecStatic == InitStatic /\ [][NextStatic]_vars

\* Both hooks while running: handlers and the steps of the background tasks,
\* delivery errors and generator failures included, without shutdown.
NextRunner ==
    \/ \E message \in UntimedMessages : HandleMessage(message)
    \/ \E task \in Tasks : TaskStart(task)
    \/ \E task \in Tasks : \E outcome \in GeneratorOutcomes :
          GenerateDone(task, outcome)
    \/ \E task \in Tasks : TypingDone(task)
    \/ \E task \in Tasks : SendDone(task)
    \/ \E task \in Tasks : DeliveryError(task)
    \/ \E task \in Tasks : DoneCallback(task)

SpecRunner == Init /\ [][NextRunner]_vars

\* some step of a background task of channel c: the loop runs it, its
\* generator call, its delay or its send returns or raises, its done
\* callback runs
TaskStepOn(c) ==
    \E task \in Tasks :
       /\ task.channel_id = c
       /\ \/ TaskStart(task)
          \/ \E outcome \in GeneratorOutcomes : GenerateDone(task, outcome)
          \/ TypingDone(task)
          \/ SendDone(task)
          \/ DeliveryError(task)
          \/ DoneCallback(task)

\* The running hooks with the event loop's guarantee: a task that can take
\* a step is not left waiting forever.
SpecLive ==
    /\ Init
    /\ [][NextRunner]_vars
    /\ \A c \in Channels : WF_vars(TaskStepOn(c))

\* The waiting identity with the clock running: the pending table, its
\* expiry and its consumption.  The runner runs undisturbed.
InitTimed ==
    /\ variant = "static"
    /\ me = TetoId
    /\ settings = Settings(TRUE, 0)
    /\ build_miku_tease_lines = "None"
    /\ now = 0
    /\ pending_by_channel = [c \in Channels |-> NoPending]
    /\ active_channels = {}
    /\ sequence_tasks = EmptyBag
    /\ aclose_pc = "idle"
    /\ ret = FALSE
    /\ call = NoCall
    /\ logger = NoLogger
    /\ store = NoStore

\* messages of the timed specification: one channel, two message ids
TimedMessages == {message \in Messages : message.channel = "c1"}

NextTimed ==
    \/ \E message \in TimedMessages : HandleMessage(message)
    \/ Tick
    \/ \E task \in Tasks : TaskStart(task)
    \/ \E task \in Tasks : TypingDone(task)
    \/ \E task \in Tasks : SendDone(task)
    \/ \E task \in Tasks : DoneCallback(task)

SpecTimed == InitTimed /\ [][NextTimed]_vars

----------------------------------------------------------------------------
(* The trigger detector on its own: every mention list up to MaxMentions   *)
(* over four member ids, duplicates included.                              *)

RECURSIVE SeqsUpTo(_, _)
SeqsUpTo(S, n) ==
    IF n = 0 THEN { << >> }
    ELSE LET shorter == SeqsUpTo(S, n - 1)
         IN  shorter \cup {Append(q, x) : q \in shorter, x \in S}

TriggerInputs ==
    [id : {1}, channel : {"c1"}, author : {[id |-> UserId, bot |-> FALSE]},
     mentions : SeqsUpTo({TetoId, MikuId, OtherBotId, UserId}, MaxMentions)]

InitTrigger ==
    /\ \E d \in Deployments :
          /\ variant = d.variant
          /\ me = d.me
          /\ settings = d.settings
          /\ build_miku_tease_lines = d.build_miku_tease_lines
    /\ now = 0
    /\ pending_by_channel = [c \in Channels |-> NoPending]
    /\ active_channels = {}
    /\ sequence_tasks = EmptyBag
    /\ aclose_pc = "idle"
    /\ ret = FALSE
    /\ logger = NoLogger
    /\ store = NoStore
    /\ call \in [fn : {"_is_dual_mention_trigger"}, message : TriggerInputs,
                 state : {"called"}, result : {FALSE}]

\* the detector returns
DetectTrigger ==
    /\ call.fn = "_is_dual_mention_trigger"
    /\ call.state = "called"
    /\ call' = [call EXCEPT !.state = "returned",
                            !.result = IsDualMentionTrigger(call.message)]
    /\ UNCHANGED <<config, services, now, pending_by_channel, active_channels,
                   sequence_tasks, aclose_pc, ret>>

NextTrigger == DetectTrigger

SpecTrigger == InitTrigger /\ [][NextTrigger]_vars

----------------------------------------------------------------------------
(* _expand_lines on its own, statement by statement: the early return, then *)
(* one step per pass of the while loop.                                     *)

\* the hook as the calls of a helper or of a service leave it
HelperFrameHooks ==
    /\ variant = "static"
    /\ me = MikuId
    /\ build_miku_tease_lines = "None"
    /\ now = 0
    /\ pending_by_channel = [c \in Channels |-> NoPending]
    /\ active_channels = {}
    /\ sequence_tasks = EmptyBag
    /\ aclose_pc = "idle"
    /\ ret = FALSE

\* the state around a call of a pure helper
HelperFrame ==
    /\ HelperFrameHooks
    /\ logger = NoLogger
    /\ store = NoStore

ExpandBases == SeqsUpTo({"a", "b"}, MaxBase)

InitExpand ==
    /\ HelperFrame
    /\ settings = Settings(TRUE, 2)
    /\ call \in [fn : {"_expand_lines"}, base_lines : ExpandBases,
                 target_count : 0..MaxTarget, state : {"called"},
                 extended : {<< >>}, result : {<< >>}]

\* from the call to the early return or to the head of the loop
ExpandEnter ==
    /\ call.fn = "_expand_lines"
    /\ call.state = "called"
    /\ call' =
          IF call.target_count <= Len(call.base_lines)
          THEN [call EXCEPT !.state = "returned",
                            !.result = SubSeq(call.base_lines, 1,
                                              call.target_count)]
          ELSE [call EXCEPT !.state = "loop", !.extended = call.base_lines]
    /\ UNCHANGED <<config, services, now, pending_by_channel, active_channels,
                   sequence_tasks, aclose_pc, ret>>

\* the loop test, then either one extended.extend(base_lines) or the return
ExpandLoop ==
    /\ call.fn = "_expand_lines"
    /\ call.state = "loop"
    /\ call' =
          IF Len(call.extended) < call.target_count
          THEN [call EXCEPT !.extended = call.extended \o call.base_lines]
          ELSE [call EXCEPT !.state = "returned",
                            !.result = SubSeq(call.extended, 1,
                                              call.target_count)]
    /\ UNCHANGED <<config, services, now, pending_by_channel, active_channels,
                   sequence_tasks, aclose_pc, ret>>

NextExpand == ExpandEnter \/ ExpandLoop

SpecExpand == InitExpand /\ [][NextExpand]_vars

----------------------------------------------------------------------------
(* The static line builders on their own, for every configured count.      *)

InitBuild ==
    /\ HelperFrame
    /\ \E enabled \in BOOLEAN : \E count \in (0 - MaxCount)..MaxCount :
          settings = Settings(enabled, count)
    /\ call \in [fn : {"_build_teto_fear_lines", "_build_miku_tease_lines"},
                 state : {"called"}, result : {<< >>}]

\* the builder returns
BuildLines ==
    /\ call.fn \in {"_build_teto_fear_lines", "_build_miku_tease_lines"}
    /\ call.state = "called"
    /\ call' = [call EXCEPT
                   !.state = "returned",
                   !.result = IF call.fn = "_build_teto_fear_lines"
                              THEN BuildTetoFearLines
                              ELSE BuildMikuTeaseLinesStatic]
    /\ UNCHANGED <<config, services, now, pending_by_channel, active_channels,
                   sequence_tasks, aclose_pc, ret>>

NextBuild == BuildLines

SpecBuild == InitBuild /\ [][NextBuild]_vars

----------------------------------------------------------------------------
(* MikuFearLineGenerator._parse_lines on its own.                           *)
(* A line of text is the sequence of its words.  The text handed to         *)
(* _extract_lines_from_text is the value of normalize_model_reply(raw),     *)
(* which is a callable given to the generator: the model ranges over the    *)
(* texts it can yield.  A text is plain lines, a JSON array of lines, a     *)
(* JSON object with a "lines" array, or a JSON object whose "answer" string *)
(* holds the lines; JSON that does not decode to one of these is read as    *)
(* plain lines.                                                             *)

MentionToken == "<@" \o TetoId \o ">"

\* the bullets HOOK_LINE_PREFIX_PATTERN removes at the head of a line of plain
\* text
Bullets == {"-", "*", "1."}

\* the three backquotes of a code fence
Fence == "<fence>"

\* a line is the sequence of its words; "pancake" holds "cake" as a substring
RawLines ==
    { << >>, << "boo" >>, << "cake" >>, << "-", "CAKE" >>,
      << MentionToken, "boo" >>, << "-" >>, << Fence >>,
      << "1.", "pancake" >> }

\* what the reply is: plain text, a JSON list, a JSON object with a list
\* "lines", a JSON object with a string "answer", a JSON object with neither,
\* or text that starts with "[" and does not decode
TextFormats == {"text", "list", "lines", "answer", "object", "invalid"}

MaterialWordLists ==
    { << >>, << "cake" >>,
      << "word1", "word2", "word3", "word4", "word5", "cake" >> }

\* str.lower on the words of the model
Lower(word) == IF word = "CAKE" THEN "cake" ELSE word

\* word in haystack: the substring test on the words of the model
Contains(haystack_word, word) ==
    \/ haystack_word = word
    \/ haystack_word = "pancake" /\ word = "cake"

\* the words of " ".join(lines)
Words(lines) ==
    UNION {{lines[i][j] : j \in DOMAIN lines[i]} : i \in DOMAIN lines}

RECURSIVE NonEmptyLines(_)
NonEmptyLines(lines) ==
    IF lines = << >> THEN << >>
    ELSE IF Head(lines) # << >>
         THEN << Head(lines) >> \o NonEmptyLines(Tail(lines))
         ELSE NonEmptyLines(Tail(lines))

RECURSIVE WithoutFences(_)
WithoutFences(raw_line) ==
    IF raw_line = << >> THEN << >>
    ELSE IF Head(raw_line) = Fence THEN WithoutFences(Tail(raw_line))
    ELSE << Head(raw_line) >> \o WithoutFences(Tail(raw_line))

\* candidate.replace(Fence, "") and
\* HOOK_LINE_PREFIX_PATTERN.sub("", raw_line).strip(), on one line
Cleaned(raw_line) ==
    LET unfenced == WithoutFences(raw_line)
    IN  IF unfenced # << >> /\ Head(unfenced) \in Bullets THEN Tail(unfenced)
        ELSE unfenced

\* the lines of the text itself: text.lines holds the items of a list, the
\* lines of an "answer", the lines of plain text, or what follows the "[" of
\* text that does not decode
TextLines(text) ==
    CASE text.format = "text" -> text.lines
      [] text.format = "list" -> << << "[]" >> >>
      [] text.format \in {"lines", "object"} -> << << "{}" >> >>
      [] text.format = "answer" -> << << "{}" >> >>
      [] text.format = "invalid" ->
           IF text.lines = << >> THEN << << "[" >> >>
           ELSE [text.lines EXCEPT ![1] = << "[" >> \o @]

\* normalized = normalize_model_reply(raw_output).strip(); not normalized
IsEmptyText(text) ==
    text.format = "text" /\ \A i \in DOMAIN text.lines : text.lines[i] = << >>

\* _extract_lines_from_text
ExtractLinesFromText(text) ==
    LET parsed_lines == IF text.format \in {"list", "lines"}
                        THEN text.lines ELSE << >>
        candidate == IF text.format = "answer" THEN text.lines
                     ELSE TextLines(text)
    IN  IF parsed_lines # << >>
        THEN NonEmptyLines(parsed_lines)
        ELSE NonEmptyLines([i \in DOMAIN candidate |-> Cleaned(candidate[i])])

\* _has_material_overlap without the [:5] slice
HasMaterialOverlapAnyWord(lines, material_words) ==
    \E k \in DOMAIN material_words :
       \E word \in Words(lines) : Contains(Lower(word), material_words[k])

\* _has_material_overlap: one of the first five words occurs in the
\* lower-cased text
HasMaterialOverlap(lines, material_words) ==
    \E k \in DOMAIN material_words :
       /\ k <= 5
       /\ \E word \in Words(lines) : Contains(Lower(word), material_words[k])

\* _parse_lines, the test of the empty text left out
ParseLinesNoEmptyTest(normalized, line_count, material_words) ==
    LET extracted == ExtractLinesFromText(normalized)
        lines == IF MentionToken \notin Words(extracted)
                 THEN [extracted EXCEPT ![1] = << MentionToken >> \o @]
                 ELSE extracted
    IN  IF extracted = << >>
        THEN [state |-> "raised", error |-> "unparseable output",
              result |-> << >>]
        ELSE IF material_words # << >>
                /\ ~HasMaterialOverlap(lines, material_words)
        THEN [state |-> "raised", error |-> "ignored user material words",
              result |-> << >>]
        ELSE [state |-> "returned", error |-> "",
              result |-> ExpandLines(lines, line_count)]

\* _parse_lines: the list returned, or the RuntimeError raised
ParseLines(normalized, line_count, material_words) ==
    LET extracted == ExtractLinesFromText(normalized)
        lines == IF MentionToken \notin Words(extracted)
                 THEN [extracted EXCEPT ![1] = << MentionToken >> \o @]
                 ELSE extracted
    IN  IF IsEmptyText(normalized)
        THEN [state |-> "raised", error |-> "empty output",
              result |-> << >>]
        ELSE IF extracted = << >>
        THEN [state |-> "raised", error |-> "unparseable output",
              result |-> << >>]
        ELSE IF material_words # << >>
                /\ ~HasMaterialOverlap(lines, material_words)
        THEN [state |-> "raised", error |-> "ignored user material words",
              result |-> << >>]
        ELSE [state |-> "returned", error |-> "",
              result |-> ExpandLines(lines, line_count)]

Texts == [format : TextFormats, lines : SeqsUpTo(RawLines, MaxRawLines)]

InitParse ==
    /\ HelperFrame
    /\ settings = Settings(TRUE, 2)
    /\ \/ call \in [fn : {"_parse_lines"},
                    normalized : Texts,
                    line_count : 1..MaxLineCount,
                    material_words : MaterialWordLists,
                    state : {"called"}, error : {""}, result : {<< >>}]
       \/ call \in [fn : {"_extract_lines_from_text"},
                    text : Texts,
                    state : {"called"}, result : {<< >>}]

\* _parse_lines returns or raises
ParseLinesDone ==
    /\ call.fn = "_parse_lines"
    /\ call.state = "called"
    /\ LET out == ParseLines(call.normalized, call.line_count,
                             call.material_words)
       IN  call' = [call EXCEPT !.state = out.state, !.error = out.error,
                                !.result = out.result]
    /\ UNCHANGED <<config, services, now, pending_by_channel, active_channels,
                   sequence_tasks, aclose_pc, ret>>

\* _extract_lines_from_text returns
ExtractLinesDone ==
    /\ call.fn = "_extract_lines_from_text"
    /\ call.state = "called"
    /\ call' = [call EXCEPT !.state = "returned",
                            !.result = ExtractLinesFromText(call.text)]
    /\ UNCHANGED <<config, services, now, pending_by_channel, active_channels,
                   sequence_tasks, aclose_pc, ret>>

NextParse == ParseLinesDone \/ ExtractLinesDone

SpecParse == InitParse /\ [][NextParse]_vars

----------------------------------------------------------------------------
(* logger/chat_logger.py: ChatReplayLogger *)

MaxFileLines == 2  \* lines of the log file found at start
MaxExistingId == 2 \* largest id of a record found at start
MaxLogCalls == 2   \* log_chat calls

LogCalls == 1..MaxLogCalls

\* A line of the file, by what _iter_chat_records_sync sees in it: "junk" is
\* a blank line, text that does not decode or a value that is not a dict,
\* "note" a dict of another type; id 0 stands for a missing, non-integer or
\* non-positive id.
ExistingLines ==
    {[type |-> "junk", id |-> 0], [type |-> "note", id |-> MaxExistingId + 1],
     [type |-> "chat", id |-> 0]}
       \cup {[type |-> "chat", id |-> k] : k \in 1..MaxExistingId}

\* _iter_chat_records_sync(guild_id=None): the ids it yields, in file order
RECURSIVE IterChatRecordIds(_, _)
IterChatRecordIds(lines, fallback_id) ==
    IF lines = << >> THEN << >>
    ELSE LET item == Head(lines)
         IN  IF item.type # "chat"
             THEN IterChatRecordIds(Tail(lines), fallback_id)
             ELSE IF item.id > 0
             THEN << item.id >>
                     \o IterChatRecordIds(Tail(lines), Max(item.id, fallback_id))
             ELSE << fallback_id + 1 >>
                     \o IterChatRecordIds(Tail(lines), fallback_id + 1)

RECURSIVE MaxId(_, _)
MaxId(ids, max_id) ==
    IF ids = << >> THEN max_id
    ELSE MaxId(Tail(ids), IF Head(ids) > max_id THEN Head(ids) ELSE max_id)

\* _initialize_sync, run by asyncio.to_thread
InitializeSync ==
    /\ logger.initialize_pc = "in_thread"
    /\ logger' =
          IF ~logger.exists
          THEN [logger EXCEPT !.exists = TRUE, !.next_id = 1,
                              !.initialize_pc = "thread_done"]
          ELSE [logger EXCEPT
                   !.next_id =
                      MaxId(IterChatRecordIds(logger.lines, 0), 0) + 1,
                   !.initialize_pc = "thread_done"]
    /\ UNCHANGED <<config, now, pending_by_channel, active_channels,
                   sequence_tasks, aclose_pc, ret, call, store>>

\* initialize takes the lock and hands _initialize_sync to a thread
InitializeEnter ==
    /\ logger.initialize_pc = "idle"
    /\ ~logger.locked
    /\ logger' = [logger EXCEPT !.locked = TRUE, !.initialize_pc = "in_thread"]
    /\ UNCHANGED <<config, now, pending_by_channel, active_channels,
                   sequence_tasks, aclose_pc, ret, call, store>>

\* initialize resumes, releases the lock and returns
InitializeExit ==
    /\ logger.initialize_pc = "thread_done"
    /\ logger' = [logger EXCEPT !.locked = FALSE, !.initialize_pc = "done"]
    /\ UNCHANGED <<config, now, pending_by_channel, active_channels,
                   sequence_tasks, aclose_pc, ret, call, store>>

\* log_chat without the lock
LogChatEnterUnlocked(c) ==
    /\ logger.calls[c].pc = "idle"
    /\ logger' = [logger EXCEPT
                     !.locked = TRUE,
                     !.next_id = @ + 1,
                     !.calls[c] = [pc |-> "in_thread",
                                   record_id |-> logger.next_id]]
    /\ UNCHANGED <<config, now, pending_by_channel, active_channels,
                   sequence_tasks, aclose_pc, ret, call, store>>

\* log_chat from the moment it gets the lock to its await of the thread: a
\* call that finds the lock taken waits for it
LogChatEnter(c) ==
    /\ logger.calls[c].pc = "idle"
    /\ ~logger.locked
    /\ logger' = [logger EXCEPT
                     !.locked = TRUE,
                     !.next_id = @ + 1,
                     !.calls[c] = [pc |-> "in_thread",
                                   record_id |-> logger.next_id]]
    /\ UNCHANGED <<config, now, pending_by_channel, active_channels,
                   sequence_tasks, aclose_pc, ret, call, store>>

\* _append_line_sync, run by asyncio.to_thread; open(.., "a") creates a file
\* that is missing
AppendLineSync(c) ==
    /\ logger.calls[c].pc = "in_thread"
    /\ logger' = [logger EXCEPT
                     !.exists = TRUE,
                     !.lines = Append(@, [type |-> "chat",
                                          id |-> logger.calls[c].record_id]),
                     !.calls[c].pc = "thread_done"]
    /\ UNCHANGED <<config, now, pending_by_channel, active_channels,
                   sequence_tasks, aclose_pc, ret, call, store>>

\* _append_line_sync raises OSError and writes nothing
AppendLineFails(c) ==
    /\ logger.calls[c].pc = "in_thread"
    /\ logger' = [logger EXCEPT !.calls[c].pc = "thread_raised"]
    /\ UNCHANGED <<config, now, pending_by_channel, active_channels,
                   sequence_tasks, aclose_pc, ret, call, store>>

\* log_chat resumes, releases the lock and returns or raises
LogChatExit(c) ==
    /\ logger.calls[c].pc \in {"thread_done", "thread_raised"}
    /\ logger' = [logger EXCEPT
                     !.locked = FALSE,
                     !.calls[c].pc = IF @ = "thread_done" THEN "done"
                                     ELSE "raised"]
    /\ UNCHANGED <<config, now, pending_by_channel, active_channels,
                   sequence_tasks, aclose_pc, ret, call, store>>

\* ChatReplayLogger(log_path) constructed, over a file that is missing or
\* holds lines of an earlier run
InitLogger ==
    /\ HelperFrameHooks
    /\ settings = Settings(TRUE, 2)
    /\ call = NoCall
    /\ store = NoStore
    /\ \E exists \in BOOLEAN :
          \E lines \in SeqsUpTo(ExistingLines, MaxFileLines) :
             /\ ~exists => lines = << >>
             /\ logger = [exists |-> exists, lines |-> lines,
                          locked |-> FALSE, next_id |-> 1,
                          initialize_pc |-> "idle",
                          calls |-> [c \in LogCalls |->
                                       [pc |-> "idle", record_id |-> 0]]]

NextLogger ==
    \/ InitializeEnter
    \/ InitializeSync
    \/ InitializeExit
    \/ \E c \in LogCalls : LogChatEnter(c)
    \/ \E c \in LogCalls : AppendLineSync(c)
    \/ \E c \in LogCalls : AppendLineFails(c)
    \/ \E c \in LogCalls : LogChatExit(c)

SpecLogger == InitLogger /\ [][NextLogger]_vars

----------------------------------------------------------------------------
(* memory_store.py: ShortTermMemoryStore, the chat_memory table *)

MaxTurns == 2   \* max_history_turns is explored from 0 to this
MaxAppends == 5 \* rows inserted in one run

Roles == {"user", "assistant", "system"}

Contents == {"hi"}

\* SELECT ... WHERE channel_id = ?
ChannelRows(rows, channel_id) == {row \in rows : row.channel_id = channel_id}

\* ORDER BY id DESC
RECURSIVE OrderByIdDesc(_)
OrderByIdDesc(rows) ==
    IF rows = {} THEN << >>
    ELSE LET first == CHOOSE row \in rows : \A other \in rows :
                                                 other.id <= row.id
         IN  << first >> \o OrderByIdDesc(rows \ {first})

\* LIMIT limit OFFSET offset
Limit(ordered, limit, offset) ==
    SubSeq(ordered, offset + 1,
           IF Len(ordered) < offset + limit THEN Len(ordered)
           ELSE offset + limit)

\* rows.reverse()
Reversed(list) == [i \in DOMAIN list |-> list[Len(list) + 1 - i]]

\* _trim_channel with OFFSET max_messages
TrimChannelOffByOne(rows, channel_id, max_messages) ==
    LET row == Limit(OrderByIdDesc(ChannelRows(rows, channel_id)), 1,
                     max_messages)
    IN  IF row = << >> THEN rows
        ELSE {r \in rows : ~(r.channel_id = channel_id /\ r.id < row[1].id)}

\* _trim_channel: the table after it
TrimChannel(rows, channel_id, max_messages) ==
    LET row == Limit(OrderByIdDesc(ChannelRows(rows, channel_id)), 1,
                     max_messages - 1)
    IN  IF row = << >> THEN rows
        ELSE {r \in rows : ~(r.channel_id = channel_id /\ r.id < row[1].id)}

\* the frame of a call of the store
StoreFrame ==
    UNCHANGED <<config, now, pending_by_channel, active_channels,
                sequence_tasks, aclose_pc, ret, logger>>

\* initialize: connects and creates the table if it does not exist
StoreInitialize ==
    /\ ~store.conn
    /\ store' = [store EXCEPT !.conn = TRUE]
    /\ call' = [fn |-> "initialize", state |-> "returned"]
    /\ StoreFrame

\* append_message, which holds the lock from the INSERT to the commit;
\* sequence is the AUTOINCREMENT counter of the table
AppendMessage(channel_id, role, content) ==
    /\ store.sequence < MaxAppends
    /\ IF role \notin {"user", "assistant"}
       THEN /\ call' = [fn |-> "append_message", state |-> "raised",
                        error |-> "ValueError"]
            /\ UNCHANGED store
       ELSE IF ~store.conn
       THEN /\ call' = [fn |-> "append_message", state |-> "raised",
                        error |-> "RuntimeError"]
            /\ UNCHANGED store
       ELSE /\ call' = [fn |-> "append_message", state |-> "returned"]
            /\ store' =
                  [store EXCEPT
                      !.sequence = @ + 1,
                      !.rows =
                         TrimChannel(
                            @ \cup {[id |-> store.sequence + 1,
                                     channel_id |-> channel_id,
                                     role |-> role, content |-> content]},
                            channel_id, store.max_messages)]
    /\ StoreFrame

\* get_history
GetHistory(channel_id) ==
    /\ IF ~store.conn
       THEN call' = [fn |-> "get_history", state |-> "raised",
                     error |-> "RuntimeError"]
       ELSE LET rows == Reversed(
                           Limit(OrderByIdDesc(
                                    ChannelRows(store.rows, channel_id)),
                                 store.max_messages, 0))
            IN  call' = [fn |-> "get_history", state |-> "returned",
                         channel_id |-> channel_id,
                         result |-> [i \in DOMAIN rows |->
                                       [role |-> rows[i].role,
                                        content |-> rows[i].content]]]
    /\ UNCHANGED store
    /\ StoreFrame

\* clear_channel
ClearChannel(channel_id) ==
    /\ IF ~store.conn
       THEN /\ call' = [fn |-> "clear_channel", state |-> "raised",
                        error |-> "RuntimeError"]
            /\ UNCHANGED store
       ELSE /\ call' = [fn |-> "clear_channel", state |-> "returned"]
            /\ store' = [store EXCEPT
                            !.rows = {row \in @ : row.channel_id # channel_id}]
    /\ StoreFrame

\* ShortTermMemoryStore(db_path, max_history_turns) constructed over a
\* database without rows
InitMemory ==
    /\ HelperFrameHooks
    /\ settings = Settings(TRUE, 2)
    /\ call = NoCall
    /\ logger = NoLogger
    /\ \E max_history_turns \in 0..MaxTurns :
          store = [max_history_turns |-> max_history_turns,
                   max_messages |-> Max(2, max_history_turns * 2),
                   conn |-> FALSE, rows |-> {}, sequence |-> 0]

NextMemory ==
    \/ StoreInitialize
    \/ \E channel_id \in Channels : \E role \in Roles :
          \E content \in Contents : AppendMessage(channel_id, role, content)
    \/ \E channel_id \in Channels : GetHistory(channel_id)
    \/ \E channel_id \in Channels : ClearChannel(channel_id)

SpecMemory == InitMemory /\ [][NextMemory]_vars

----------------------------------------------------------------------------
(* Properties *)

RunnersOn(c) ==
    CountTasks({task \in Tasks : InRunSequence(task) /\ task.channel_id = c})

UnfinishedOn(c) ==
    CountTasks({task \in Tasks : Unfinished(task) /\ task.channel_id = c})

\* C1: for every channel, at most one _run_sequence is between its start
\* (active_channels.add) and its cleanup, in both hooks and under every
\* interleaving of handle_message calls and task steps.
C1_OneRunnerPerChannel ==
    \A c \in Channels : RunnersOn(c) <= 1

\* C2: in the generated-script hook a joint trigger arriving while an earlier
\* trigger's task for the channel is unfinished launches no second task: no
\* channel ever has two unfinished tasks.
C2_SecondTriggerDropped ==
    variant = "generated" => \A c \in Channels : UnfinishedOn(c) <= 1

\* C3: active_channels never leaks an entry: a channel is in the set only
\* while some _run_sequence for it is between start and cleanup, whether
\* runs end by delivering everything, by an error or by cancellation; so
\* whenever no task is unfinished the set is empty.
C3_NoLeak ==
    /\ \A c \in active_channels : RunnersOn(c) >= 1
    /\ CountTasks({task \in Tasks : Unfinished(task)}) = 0 => active_channels = {}

\* a sequence was cancelled after its first line and the set is empty again
C3_Witness ==
    /\ active_channels = {}
    /\ \E task \in Tasks :
          task.pc = "cancelled" /\ Len(task.delivered) = 1

Drained ==
    /\ CountTasks({task \in Tasks : Unfinished(task)}) = 0
    /\ active_channels = {}
    /\ CountTasks(Registered) = 0

\* C4: when aclose() returns, every task the hook created is cancelled or
\* finished, active_channels is empty and self._tasks is empty, whatever
\* handle_message calls interleave with it.
C4_AcloseDrains ==
    [][aclose_pc # "returned" /\ aclose_pc' = "returned" => Drained']_vars

LaunchedOne ==
    BagCardinality(sequence_tasks') = BagCardinality(sequence_tasks) + 1

Age(c) == now - pending_by_channel[c].created_at

\* C5: the waiting identity launches a sequence from a pending entry only in
\* a pass whose clock reading is at most the timeout after created_at, and a
\* partner message on a non-busy channel whose entry is that young does
\* launch it (timeout 5: launched at elapsed 4 and 5, not at 6).
C5_NoLaunchAfterTimeout ==
    [][\A message \in TimedMessages :
          HandleMessage(message) =>
             (LaunchedOne <=>
                /\ message.author.id = MikuId
                /\ message.channel \notin active_channels
                /\ pending_by_channel[message.channel] # NoPending
                /\ Age(message.channel)
                      <= settings.teto_wait_miku_timeout_seconds)]_vars

\* a sequence launched from an entry when the clock had advanced
C5_Witness ==
    /\ now = TimeoutSeconds - 1
    /\ pending_by_channel["c1"] = NoPending
    /\ \E task \in Tasks : task.pc = "created"

\* C6: the waiting identity launches a sequence only in a pass handling a
\* message of the partner bot in a channel that has a pending entry, and
\* that pass removes the entry.
C6_OneShotConsumption ==
    [][me = TetoId /\ LaunchedOne =>
          \A message \in UntimedMessages :
             HandleMessage(message) =>
                /\ message.author = [id |-> MikuId, bot |-> TRUE]
                /\ pending_by_channel[message.channel] # NoPending
                /\ pending_by_channel'[message.channel] = NoPending
                /\ \E task \in BagToSet(sequence_tasks') :
                      /\ task.pc = "created"
                      /\ task.channel_id = message.channel]_vars

\* the waiting identity launched a sequence and the entry is gone
C6_Witness ==
    /\ me = TetoId
    /\ pending_by_channel["c1"] = NoPending
    /\ \E task \in Tasks : task.pc = "created" /\ task.channel_id = "c1"

\* C7: recording a joint trigger overwrites the channel's entry with the
\* current clock reading and the trigger's message id, and the sequence
\* launched on consumption carries the trigger_message_id of the entry,
\* i.e. of the most recently recorded trigger.
C7_LastTriggerWins ==
    [][\A message \in TimedMessages :
          HandleMessage(message) =>
             /\ ret' =>
                   pending_by_channel'[message.channel] =
                      PendingDualMention(now, message.id)
             /\ LaunchedOne =>
                   sequence_tasks' = sequence_tasks (+) SetToBag({
                      NewTask(message.channel,
                              pending_by_channel[message.channel]
                                 .trigger_message_id,
                              BuildTetoFearLines)})]_vars

\* a second trigger was recorded later and its id reached the sequence
C7_Witness ==
    /\ now > 0
    /\ pending_by_channel["c1"] = NoPending
    /\ \E task \in Tasks : task.pc = "created" /\ task.trigger_message_id = 2

\* the conditions under which the static hook suppresses the default reply
Suppresses(message) ==
    /\ settings.dual_mention_hook_enabled
    /\ me \in {TetoId, MikuId}
    /\ message.channel \notin active_channels
    /\ ~message.author.bot
    /\ \E i, j \in DOMAIN message.mentions :
          message.mentions[i] = TetoId /\ message.mentions[j] = MikuId

\* C8: the static hook's handle_message returns True exactly when the
\* feature is enabled, the identity is Teto or Miku, the channel is not
\* active, the author is no bot and the message is a joint trigger; then
\* Miku launches one task and Teto records a pending entry; a bot-authored
\* message records nothing and launches no speaks-first sequence.
C8_ReturnValue ==
    [][variant = "static" =>
          \A message \in UntimedMessages :
             HandleMessage(message) =>
                /\ ret' <=> Suppresses(message)
                /\ ret' /\ me = MikuId =>
                      LaunchedOne /\ UNCHANGED pending_by_channel
                /\ ret' /\ me = TetoId =>
                      /\ pending_by_channel'[message.channel] # NoPending
                      /\ UNCHANGED sequence_tasks
                /\ message.author.bot =>
                      /\ \A c \in Channels :
                            pending_by_channel[c] = NoPending
                               => pending_by_channel'[c] = NoPending
                      /\ me = MikuId => UNCHANGED sequence_tasks]_vars

\* Miku answered a joint trigger: True was returned and one task exists
C8_Witness ==
    /\ variant = "static"
    /\ me = MikuId
    /\ ret
    /\ BagCardinality(sequence_tasks) = 1

\* C9: _is_dual_mention_trigger returns true iff the Teto id and the Miku id
\* both occur among the mentioned ids, for every mention list.
C9_DualMention ==
    call.fn = "_is_dual_mention_trigger" /\ call.state = "returned" =>
       (call.result <=>
          \E i, j \in DOMAIN call.message.mentions :
             /\ call.message.mentions[i] = TetoId
             /\ call.message.mentions[j] = MikuId)

\* the detector accepted a list that names both bots among others
C9_Witness ==
    /\ call.fn = "_is_dual_mention_trigger"
    /\ call.state = "returned"
    /\ call.result
    /\ call.message.mentions = << MikuId, UserId, TetoId >>

\* C10: the lines a runner has delivered are at every moment a prefix of its
\* script, in script order, and a runner waiting for a delay or a send has
\* delivered exactly the lines before its current index.
C10_DeliveredPrefix ==
    \A task \in Tasks :
       /\ Len(task.delivered) <= Len(task.lines)
       /\ task.delivered = SubSeq(task.lines, 1, Len(task.delivered))
       /\ InRunSequence(task) => Len(task.delivered) = task.index

\* a two-line script was delivered completely
C10_Witness ==
    \E task \in Tasks :
       /\ task.pc = "done"
       /\ Len(task.lines) = 2
       /\ task.lines[1] # task.lines[2]
       /\ task.delivered = task.lines

\* C11: when typing() or send() raises in a runner, the task ends normally
\* (not with the exception) having delivered exactly the lines delivered
\* before, its channel is no longer in active_channels, and a task that has
\* ended sends nothing more.
C11_ErrorContained ==
    /\ [](\A task \in Tasks :
            task.pc \in Terminal =>
               ~ENABLED (TypingDone(task) \/ SendDone(task)))
    /\ [][\A task \in Tasks :
            DeliveryError(task) =>
               /\ BagCardinality(sequence_tasks') =
                     BagCardinality(sequence_tasks)
               /\ \E ended \in BagToSet(sequence_tasks') :
                     /\ ended.pc = "done"
                     /\ ended.channel_id = task.channel_id
                     /\ ended.lines = task.lines
                     /\ ended.delivered = task.delivered
                     /\ sequence_tasks'[ended] =
                           (IF ended \in Tasks THEN sequence_tasks[ended]
                            ELSE 0) + 1
               /\ task.channel_id \notin active_channels']_vars

\* a runner ended normally after its first line, one line short, and its
\* channel is free
C11_Witness ==
    /\ active_channels = {}
    /\ \E task \in Tasks :
          /\ task.pc = "done"
          /\ ~task.must_cancel
          /\ Len(task.lines) = 2
          /\ Len(task.delivered) = 1

\* the provider gave nothing usable: it raised, or no line has a non-blank
\* character
ProviderFailed(outcome) ==
    \/ outcome.raised
    \/ \A i \in DOMAIN outcome.lines : outcome.lines[i] = " "

\* a step that ends a task of the generated hook with zero lines: nothing
\* delivered, active_channels untouched
EndsWithZeroLines ==
    /\ BagCardinality(sequence_tasks') = BagCardinality(sequence_tasks)
    /\ \E ended \in BagToSet(sequence_tasks') :
          /\ ended.pc = "done"
          /\ ended.lines = << >>
          /\ ended.delivered = << >>
          /\ sequence_tasks'[ended] =
                (IF ended \in Tasks THEN sequence_tasks[ended] ELSE 0) + 1
    /\ UNCHANGED active_channels

\* C12: in the generated hook, when the callback raises, returns no
\* non-blank line or is missing, the task ends normally with zero lines:
\* nothing is sent and active_channels is not touched; and the pass that
\* created the task had returned True.
C12_ProviderFailureContained ==
    [][variant = "generated" =>
          /\ \A task \in Tasks : \A outcome \in GeneratorOutcomes :
                GenerateDone(task, outcome) /\ ProviderFailed(outcome)
                   => EndsWithZeroLines
          /\ \A task \in Tasks :
                TaskStart(task) /\ build_miku_tease_lines = "None"
                   => EndsWithZeroLines
          /\ \A message \in UntimedMessages :
                HandleMessage(message) /\ LaunchedOne => ret']_vars

\* a trigger was answered with True and its task ended with zero lines
C12_Witness ==
    /\ variant = "generated"
    /\ build_miku_tease_lines = "callback"
    /\ ret
    /\ active_channels = {}
    /\ \E task \in Tasks :
          task.pc = "done" /\ task.lines = << >> /\ task.delivered = << >>

\* C13: for every base list, empty or not, and every target count >= 0,
\* _expand_lines terminates (each pass of its loop brings the list closer to
\* the target) and returns exactly target lines, result[i] being
\* base[i mod len(base)], and expanding the result again to the same target
\* gives the result.
C13_ExpandLines ==
    call.fn = "_expand_lines" =>
       /\ call.state = "loop" /\ Len(call.extended) < call.target_count =>
             Len(call.extended \o call.base_lines) > Len(call.extended)
       /\ call.state = "returned" =>
             /\ Len(call.result) = call.target_count
             /\ \A i \in 1..call.target_count :
                   call.result[i] =
                      call.base_lines[((i - 1) % Len(call.base_lines)) + 1]
             /\ ExpandLines(call.result, call.target_count) = call.result

\* C14: the static builders always return, and for a configured count n
\* they return max(1, n) lines, line i being template i mod 7 of the
\* identity's seven templates with the partner's id in the placeholder of
\* the first template (3: the first three; 10: all seven, then the first
\* three; 0 or less: the first alone).
C14_StaticScript ==
    call.fn \in {"_build_teto_fear_lines", "_build_miku_tease_lines"} =>
       LET n == settings.teto_fear_message_count
           wanted == IF n >= 1 THEN n ELSE 1
           teto == call.fn = "_build_teto_fear_lines"
           templates == IF teto THEN TETO_FEAR_LINES ELSE MIKU_TEASE_LINES
           first == IF teto THEN "T1 <@miku>" ELSE "M1 <@teto>"
       IN  /\ call.state = "called" => ENABLED BuildLines
           /\ call.state = "returned" =>
                 /\ Len(call.result) = wanted
                 /\ \A i \in 1..wanted :
                       LET k == ((i - 1) % Len(templates)) + 1
                       IN  call.result[i] =
                              IF k = 1 THEN first ELSE templates[k]

\* ten lines were asked of Teto's builder: the eighth is the first template
\* again, the tenth the third
C14_Witness ==
    /\ call.fn = "_build_teto_fear_lines"
    /\ call.state = "returned"
    /\ settings.teto_fear_message_count = 10
    /\ Len(call.result) = 10
    /\ call.result[8] = "T1 <@miku>"
    /\ call.result[10] = "T3"

\* C15: every script _parse_lines returns has the mention token <@id> in
\* its first line, whatever the text and the line count.
C15_MentionInFirstLine ==
    call.fn = "_parse_lines" /\ call.state = "returned" =>
       \E j \in DOMAIN call.result[1] : call.result[1][j] = MentionToken

\* the lines of a script that contain a material word
OverlappingLines(script, material_words) ==
    {i \in DOMAIN script :
        \E j \in DOMAIN script[i] : \E k \in DOMAIN material_words :
           Lower(script[i][j]) = material_words[k]}

\* C16: when material words were extracted, every script _parse_lines
\* returns has at least two lines that each contain a material word (stated
\* here for the scripts that have two lines at all).
C16_TwoLinesOverlap ==
    /\ call.fn = "_parse_lines"
    /\ call.state = "returned"
    /\ call.material_words # << >>
    /\ Len(call.result) >= 2
    => Cardinality(OverlappingLines(call.result, call.material_words)) >= 2

\* C17: the delay a runner waits before a later line is shorter than the
\* delay it waits before the first line of a sequence.
C17_FirstDelayLonger ==
    \A task \in Tasks :
       task.pc = "typing" /\ task.index > 0 =>
          task.delay_seconds < DelaySeconds(0)

\* C18: a handle_message pass for a message whose channel is in
\* active_channels returns False, creates no task, records no entry and
\* consumes none: every channel's entry is as before, or was removed as
\* expired by the sweep.
C18_BusyGuardNoOp ==
    [][\A message \in UntimedMessages :
          HandleMessage(message) /\ message.channel \in active_channels =>
             /\ ~ret'
             /\ UNCHANGED sequence_tasks
             /\ \A c \in Channels :
                   \/ pending_by_channel'[c] = pending_by_channel[c]
                   \/ /\ pending_by_channel'[c] = NoPending
                      /\ Age(c) > settings.teto_wait_miku_timeout_seconds]_vars

\* the waiting identity holds an entry for a channel whose sequence is
\* running, and the last pass returned False
C18_Witness ==
    /\ me = TetoId
    /\ "c1" \in active_channels
    /\ pending_by_channel["c1"] # NoPending
    /\ ~ret
    /\ BagCardinality(sequence_tasks) = 1

\* C19: every task that has been created and has not completed is in
\* self._tasks, under every interleaving of handle_message, task steps and
\* aclose.
C19_RegistryOwnsTasks ==
    \A task \in Tasks : Unfinished(task) => task.registered

\* C20: a channel is in active_channels if and only if some _run_sequence
\* for it has started and has not reached its cleanup.
C20_ActiveExactlyRunning ==
    \A c \in Channels : c \in active_channels <=> RunnersOn(c) >= 1

AcceptsTrigger(c) ==
    HandleMessageOutcome([id |-> 1, channel |-> c,
                          author |-> [id |-> UserId, bot |-> FALSE],
                          mentions |-> << TetoId, MikuId >>]).result

\* C22: if every delay and every send eventually returns or raises, a
\* channel that is in active_channels eventually is not, and a joint trigger
\* in it is then accepted again.
C22_ChannelFreedAgain ==
    \A c \in Channels :
       (c \in active_channels)
          ~> (c \notin active_channels /\ AcceptsTrigger(c))

\* a sequence ran to its end and its channel takes triggers again
C22_Witness ==
    /\ "c1" \notin active_channels
    /\ AcceptsTrigger("c1")
    /\ \E task \in Tasks :
          /\ task.channel_id = "c1"
          /\ task.pc = "done"
          /\ task.lines # << >>
          /\ task.delivered = task.lines

\* the words the overlap test of _parse_lines reads: those of every extracted
\* line, before the truncation to line_count, and the mention token, which
\* the text holds once the mention was normalised
WordsBeforeTruncation ==
    Words(ExtractLinesFromText(call.normalized)) \cup {MentionToken}

\* one of the first five material words occurs, in any case, in the text
\* before truncation
OverlapBeforeTruncation ==
    \E k \in 1..5 :
       /\ k \in DOMAIN call.material_words
       /\ \E word \in WordsBeforeTruncation :
             Contains(Lower(word), call.material_words[k])

\* C23: when _parse_lines got lines out of the text, it returns exactly if no
\* material words were extracted or one of the first five material words
\* occurs, case-insensitively, in the concatenated lines after the mention
\* was normalised and before the truncation to line_count; otherwise it
\* raises "ignored user material words".
C23_OverlapValidated ==
    /\ call.fn = "_parse_lines"
    /\ call.state # "called"
    /\ call.error \notin {"empty output", "unparseable output"}
    => /\ call.state = "returned"
             <=> call.material_words = << >> \/ OverlapBeforeTruncation
       /\ call.state = "raised"
             <=> call.error = "ignored user material words"

\* parsing succeeded on the overlap of a line that the truncation removed
C23_Witness ==
    /\ call.fn = "_parse_lines"
    /\ call.state = "returned"
    /\ call.material_words # << >>
    /\ ~HasMaterialOverlap(call.result, call.material_words)

\* C24 as stated: _parse_lines raises "empty output" when the text is not
\* empty and no line survives the extraction, and "unparseable output" when
\* the normalized text is empty.
C24_EmptyWhenNoLines ==
    call.fn = "_parse_lines" /\ call.state # "called" =>
       /\ call.error = "empty output"
             <=> /\ ~IsEmptyText(call.normalized)
                 /\ ExtractLinesFromText(call.normalized) = << >>
       /\ call.error = "unparseable output"
             <=> IsEmptyText(call.normalized)

\* C24, the two conditions exchanged: _parse_lines raises "empty output"
\* exactly when the normalized text is empty, and "unparseable output"
\* exactly when the text is not empty and no line survives the extraction.
C24_EmptyWhenTextEmpty ==
    call.fn = "_parse_lines" /\ call.state # "called" =>
       /\ call.error = "empty output"
             <=> /\ call.normalized.format = "text"
                 /\ Words(call.normalized.lines) = {}
       /\ call.error = "unparseable output"
             <=> /\ \/ call.normalized.format # "text"
                    \/ Words(call.normalized.lines) # {}
                 /\ ExtractLinesFromText(call.normalized) = << >>

\* a text of a code fence and a bullet only: not empty, and no line survives
C24_Witness ==
    /\ call.fn = "_parse_lines"
    /\ call.state = "raised"
    /\ call.error = "unparseable output"
    /\ call.normalized.format = "text"
    /\ call.normalized.lines = << << Fence >>, << "-" >> >>

IsNotFence(word) == word # Fence

IsNotBlank(line) == line # << >>

\* a line of the plain-text path: code fences removed, then one leading
\* bullet
PlainLine(raw_line) ==
    LET unfenced == SelectSeq(raw_line, IsNotFence)
    IN  IF unfenced # << >> /\ unfenced[1] \in {"-", "*", "1."}
        THEN SubSeq(unfenced, 2, Len(unfenced))
        ELSE unfenced

\* the plain-text path: every line cleaned, the empty ones dropped
PlainPath(lines) ==
    SelectSeq([i \in DOMAIN lines |-> PlainLine(lines[i])], IsNotBlank)

\* C25: _extract_lines_from_text returns the non-blank items of a JSON list
\* or of the list "lines" of a JSON object, the plain-text reading of the
\* string "answer" of a JSON object, and in every other case the plain-text
\* reading of the text itself.
C25_ExtractLines ==
    call.fn = "_extract_lines_from_text" /\ call.state = "returned" =>
       call.result =
          CASE call.text.format \in {"list", "lines"} ->
                  SelectSeq(call.text.lines, IsNotBlank)
            [] call.text.format = "answer" -> PlainPath(call.text.lines)
            [] OTHER -> PlainPath(TextLines(call.text))

\* the ids of the chat records of the log file, as a reader of the file
\* numbers them
FileRecordIds == IterChatRecordIds(logger.lines, 0)

\* the largest id of a chat record of the file, 0 when there is none
LargestFileId ==
    IF FileRecordIds = << >> THEN 0
    ELSE CHOOSE id \in {FileRecordIds[k] : k \in DOMAIN FileRecordIds} :
            \A k \in DOMAIN FileRecordIds : FileRecordIds[k] <= id

\* C26: once initialize() has returned, under every interleaving of log_chat
\* calls, each call appends one chat record at the end of the file whose id
\* is greater than the id of every chat record the file holds, those
\* appended before it included; initialize() sets the next id to one more
\* than the largest id of the file (1 for a new file), every call takes the
\* next id, and nothing else changes it.
C26_ReplayLogIds ==
    /\ [][\A c \in LogCalls :
             logger.initialize_pc = "done" /\ AppendLineSync(c) =>
                /\ Len(logger'.lines) = Len(logger.lines) + 1
                /\ SubSeq(logger'.lines, 1, Len(logger.lines)) = logger.lines
                /\ logger'.lines[Len(logger'.lines)].type = "chat"
                /\ logger'.lines[Len(logger'.lines)].id > LargestFileId]_vars
    /\ [][InitializeSync =>
             logger'.next_id = IF logger.exists THEN LargestFileId + 1
                               ELSE 1]_vars
    /\ [][\A c \in LogCalls :
             LogChatEnter(c) =>
                /\ logger'.calls[c].record_id = logger.next_id
                /\ logger'.next_id = logger.next_id + 1]_vars
    /\ [][logger'.next_id # logger.next_id =>
             InitializeSync \/ \E c \in LogCalls : LogChatEnter(c)]_vars

\* two calls made after initialize() wrote their records behind a record
\* that carries no id of its own
C26_Witness ==
    /\ logger.initialize_pc = "done"
    /\ Len(logger.lines) >= 4
    /\ logger.lines[1] = [type |-> "chat", id |-> MaxExistingId]
    /\ logger.lines[2] = [type |-> "chat", id |-> 0]
    /\ \A c \in {1, 2} :
          /\ logger.calls[c].pc = "done"
          /\ logger.calls[c].record_id > MaxExistingId + 1

\* the messages the store holds for a channel, oldest first: the i-th is the
\* one with i - 1 older messages of the channel
Stored(rows, c) ==
    LET held == {row \in rows : row.channel_id = c}
    IN  [i \in 1..Cardinality(held) |->
           LET row == CHOOSE row \in held :
                         Cardinality({older \in held : older.id < row.id})
                            = i - 1
           IN  [role |-> row.role, content |-> row.content]]

\* the last n elements of a list
MostRecent(list, n) ==
    IF Len(list) <= n THEN list ELSE SubSeq(list, Len(list) - n + 1, Len(list))

\* C27: every channel holds at most max(2, 2 * max_history_turns) messages;
\* an append of a user or assistant message leaves in its channel the most
\* recent max_messages of what the channel held followed by the new message,
\* and leaves every other channel as it was; an append with another role
\* raises and changes nothing; clear_channel empties its channel only; and
\* get_history returns the messages of the channel, oldest first, and
\* changes nothing.
C27_HistoryTrimmed ==
    /\ [](store # NoStore =>
             \A c \in Channels :
                Cardinality({row \in store.rows : row.channel_id = c})
                   <= Max(2, 2 * store.max_history_turns))
    /\ [][\A c \in Channels : \A role \in Roles : \A content \in Contents :
             AppendMessage(c, role, content) =>
                IF role \in {"user", "assistant"} /\ store.conn
                THEN /\ Stored(store'.rows, c) =
                           MostRecent(
                              Append(Stored(store.rows, c),
                                     [role |-> role, content |-> content]),
                              Max(2, 2 * store.max_history_turns))
                     /\ \A other \in Channels \ {c} :
                           {row \in store'.rows : row.channel_id = other}
                              = {row \in store.rows : row.channel_id = other}
                ELSE call'.state = "raised" /\ store' = store]_vars
    /\ [][\A c \in Channels :
             ClearChannel(c) /\ store.conn =>
                /\ Stored(store'.rows, c) = << >>
                /\ \A other \in Channels \ {c} :
                      {row \in store'.rows : row.channel_id = other}
                         = {row \in store.rows : row.channel_id = other}]_vars
    /\ [][\A c \in Channels :
             GetHistory(c) /\ store.conn =>
                /\ call'.result = Stored(store.rows, c)
                /\ store' = store]_vars

\* c1 was trimmed to its two most recent messages while the older message of
\* c2 stayed, and get_history has returned the two
C27_Witness ==
    /\ store # NoStore
    /\ store.max_messages = 2
    /\ {row.id : row \in store.rows} = {1, 3, 4}
    /\ \E row \in store.rows : row.id = 1 /\ row.channel_id = "c2"
    /\ call.fn = "get_history"
    /\ call.state = "returned"
    /\ call.result = << [role |-> "assistant", content |-> "hi"],
                        [role |-> "user", content |-> "hi"] >>

====
